---- MODULE Spec2Model ----
(***************************************************************************)
(* Dependent multi-step query execution engine of NLP2SQL:                 *)
(*   - the generate/validate retry loop of app.py,                         *)
(*   - the ingestion check of generate_sql_with_dependencies,              *)
(*   - the plan runner, the placeholder resolver and the result formatter  *)
(*     of service/execute_and_format.py.                                   *)
(*                                                                         *)
(* Representation.  A Python str is a sequence of tokens.  Identifiers,    *)
(* braces and everything the code inspects character by character are one  *)
(* token per character; literal text the code only copies is one token per *)
(* literal.  The Chinese literals of the source are written in pinyin (the *)
(* module is ASCII).  A Python dict with optional keys is a record whose   *)
(* DOMAIN is the key set; a row (an ordered dict) is a sequence of         *)
(* <<column, value>> pairs; None is the record PyNone.                     *)
(***************************************************************************)
EXTENDS Integers, Sequences, FiniteSets, TLC

VARIABLES
    max_attempts,          \* app.py: the slider value
    attempt,               \* app.py: the loop variable of the for loop (0 before the loop)
    last_error,            \* app.py: last_error
    final_execution_plan,  \* app.py: final_execution_plan
    pc,                    \* position of the request handler
    oracle_calls,          \* history: number of generate_sql_with_dependencies calls
    validator_calls,       \* history: number of validate_final_sql_result calls
    rejections,            \* history: number of validator rejections
    attempt_log,           \* history: what the latest attempt was given and returned
    malformed_answers,     \* history: number of malformed answers of the oracle
    st_warning,            \* app.py: the text of the latest st.warning of the loop
    st_error,              \* app.py: the text of the latest st.error of the loop and its exit
    connection,            \* execute_and_format.py: the connection of the with block
    step_results_for_deps, \* execute_and_format.py: step_results_for_deps
    output_results,        \* execute_and_format.py: output_results
    step_iter,             \* execute_and_format.py: the steps the for loop has not visited yet
    exec_log,              \* history: one entry per processed step
    call_args,             \* the arguments of a direct call of the resolver or the formatter
    call_result            \* what the direct calls made so far returned, one entry per call

vars == <<max_attempts, attempt, last_error, final_execution_plan, pc, oracle_calls,
          validator_calls, rejections, attempt_log, malformed_answers, st_warning,
          st_error, connection,
          step_results_for_deps, output_results, step_iter, exec_log,
          call_args, call_result>>

call_vars == <<call_args, call_result>>

loop_vars == <<max_attempts, attempt, last_error, final_execution_plan, oracle_calls,
               validator_calls, rejections, attempt_log, malformed_answers,
               st_warning, st_error>>

run_vars == <<connection, step_results_for_deps, output_results, step_iter, exec_log>>

-----------------------------------------------------------------------------
(* Python values *)

PyNone == [none |-> TRUE]

Some(x) == [none |-> FALSE, val |-> x]

IntV(s) == [t |-> "int", s |-> s]

StrV(s) == [t |-> "str", s |-> s]

NullV == [t |-> "null", s |-> <<"N", "o", "n", "e">>]

\* str(value)
PyStr(v) == v.s

Digit == <<"0", "1", "2", "3", "4", "5", "6", "7", "8", "9">>

RECURSIVE IntStr(_)
\* str(n) of a natural number
IntStr(n) == IF n < 10 THEN <<Digit[n + 1]>>
             ELSE IntStr(n \div 10) \o <<Digit[(n % 10) + 1]>>

EmptyDict == [k \in {} |-> <<>>]

\* d[k] = v on a dict
DictSet(d, k, v) == [x \in (DOMAIN d) \cup {k} |-> IF x = k THEN v ELSE d[x]]

Max(a, b) == IF a >= b THEN a ELSE b

\* str.endswith
EndsWith(s, suffix) ==
    /\ Len(s) >= Len(suffix)
    /\ SubSeq(s, Len(s) - Len(suffix) + 1, Len(s)) = suffix

\* key in row
RowHas(row, col) == \E i \in 1..Len(row) : row[i][1] = col

\* row[key]
RowGet(row, col) == row[CHOOSE i \in 1..Len(row) : row[i][1] = col][2]

-----------------------------------------------------------------------------
(* _extract_parameter_value *)

SUFFIX_ids == <<"_", "i", "d", "s">>

SUFFIX_id == <<"_", "i", "d">>

SUFFIX_s == <<"s">>

IsListParameter(param_name) ==
    \/ EndsWith(param_name, SUFFIX_ids)
    \/ EndsWith(param_name, SUFFIX_id)
    \/ EndsWith(param_name, SUFFIX_s)

\* Case 3 of the list branch: the singularized column name
GuessColumn(param_name) ==
    IF EndsWith(param_name, SUFFIX_ids)
    THEN SubSeq(param_name, 1, Len(param_name) - 4) \o SUFFIX_id
    ELSE IF EndsWith(param_name, SUFFIX_s)
         THEN SubSeq(param_name, 1, Len(param_name) - 1)
         ELSE param_name

\* DepRows stopping after the first listed dependency
DepRows_FirstOnly(step_results, depends_on) ==
    IF depends_on = <<>> \/ Head(depends_on) \notin DOMAIN step_results THEN <<>>
    ELSE step_results[Head(depends_on)]

RECURSIVE DepRows(_, _)
\* the rows the two nested for loops visit, in visiting order
DepRows(step_results, depends_on) ==
    IF depends_on = <<>> THEN <<>>
    ELSE (IF Head(depends_on) \in DOMAIN step_results
          THEN step_results[Head(depends_on)]
          ELSE <<>>) \o DepRows(step_results, Tail(depends_on))

RECURSIVE ScalarScan_BindsNull(_, _)
\* ScalarScan returning a found NULL as a value of its own, apart from not found
ScalarScan_BindsNull(param_name, rows) ==
    IF rows = <<>> THEN PyNone
    ELSE IF RowHas(Head(rows), param_name)
         THEN Some([list |-> FALSE, vals |-> {RowGet(Head(rows), param_name)}])
         ELSE IF Len(Head(rows)) = 1
              THEN Some([list |-> FALSE, vals |-> {Head(rows)[1][2]}])
              ELSE ScalarScan_BindsNull(param_name, Tail(rows))

RECURSIVE ScalarScan(_, _)
\* the non-list branch: the first row with the column or with one column returns
ScalarScan(param_name, rows) ==
    IF rows = <<>> THEN PyNone
    ELSE IF RowHas(Head(rows), param_name)
         THEN (IF RowGet(Head(rows), param_name) = NullV THEN PyNone
               ELSE Some([list |-> FALSE, vals |-> {RowGet(Head(rows), param_name)}]))
         ELSE IF Len(Head(rows)) = 1
              THEN (IF Head(rows)[1][2] = NullV THEN PyNone
                    ELSE Some([list |-> FALSE, vals |-> {Head(rows)[1][2]}]))
              ELSE ScalarScan(param_name, Tail(rows))

\* the value one row appends to values in the list branch (a set of at most one value)
RowContribution(param_name, row) ==
    IF Len(row) = 1 THEN {row[1][2]}
    ELSE IF RowHas(row, param_name) THEN {RowGet(row, param_name)}
    ELSE IF RowHas(row, GuessColumn(param_name)) THEN {RowGet(row, GuessColumn(param_name))}
    ELSE {}

\* set(values) of the list branch
ListValues(param_name, rows) ==
    UNION {RowContribution(param_name, rows[i]) : i \in 1..Len(rows)}

\* ExtractParameterValue without the test `if not values: return None`
ExtractParameterValue_EmptyTuple(param_name, step_results, depends_on) ==
    LET rows == DepRows(step_results, depends_on)
    IN  IF IsListParameter(param_name)
        THEN Some([list |-> TRUE, vals |-> ListValues(param_name, rows)])
        ELSE ScalarScan(param_name, rows)

\* PyNone, or Some([list, vals]): a scalar is vals = {v}, a list is tuple(set(values))
ExtractParameterValue(param_name, step_results, depends_on) ==
    LET rows == DepRows(step_results, depends_on)
    IN  IF IsListParameter(param_name)
        THEN (IF ListValues(param_name, rows) = {} THEN PyNone
              ELSE Some([list |-> TRUE, vals |-> ListValues(param_name, rows)]))
        ELSE ScalarScan(param_name, rows)

-----------------------------------------------------------------------------
(* _resolve_query_parameters: re.sub(r'\{\{([^}]+)\}\}', replacer, sql_template) *)

RECURSIVE NonBraceRun(_, _)
\* length of the longest run of tokens other than "}" starting at position j
NonBraceRun(s, j) ==
    IF j > Len(s) \/ s[j] = "}" THEN 0 ELSE 1 + NonBraceRun(s, j + 1)

\* length of group(1) of a match starting at position i, 0 when there is none
MatchLen(s, i) ==
    IF i + 1 <= Len(s) /\ s[i] = "{" /\ s[i + 1] = "{"
    THEN LET r == NonBraceRun(s, i + 2)
         IN  IF /\ r >= 1
                /\ i + 3 + r <= Len(s)
                /\ s[i + 2 + r] = "}"
                /\ s[i + 3 + r] = "}"
             THEN r ELSE 0
    ELSE 0

ResolutionFailed == [ok |-> FALSE, sql |-> <<>>, params |-> EmptyDict]

RECURSIVE Substitute_Interpolates(_, _, _, _, _, _)
\* Substitute writing the value of a scalar into the SQL text in the place of its marker
Substitute_Interpolates(s, i, params, out, step_results, depends_on) ==
    IF i > Len(s) THEN [ok |-> TRUE, sql |-> out, params |-> params]
    ELSE LET r == MatchLen(s, i)
             param_name == SubSeq(s, i + 2, i + 1 + r)
             marker == <<":">> \o param_name
         IN  IF r = 0
             THEN Substitute_Interpolates(s, i + 1, params, Append(out, s[i]),
                                          step_results, depends_on)
             ELSE IF param_name \in DOMAIN params
             THEN Substitute_Interpolates(s, i + r + 4, params, out \o marker,
                                          step_results, depends_on)
             ELSE LET param_value ==
                        ExtractParameterValue(param_name, step_results, depends_on)
                  IN  IF param_value.none
                      THEN ResolutionFailed
                      ELSE Substitute_Interpolates(s, i + r + 4,
                               DictSet(params, param_name, param_value.val),
                               IF param_value.val.list THEN out \o marker
                               ELSE out \o PyStr(CHOOSE v \in param_value.val.vals : TRUE),
                               step_results, depends_on)

RECURSIVE Substitute(_, _, _, _, _, _)
\* re.sub scanning from position i with the params bound so far
Substitute(s, i, params, out, step_results, depends_on) ==
    IF i > Len(s) THEN [ok |-> TRUE, sql |-> out, params |-> params]
    ELSE LET r == MatchLen(s, i)
             param_name == SubSeq(s, i + 2, i + 1 + r)
             marker == <<":">> \o param_name
         IN  IF r = 0
             THEN Substitute(s, i + 1, params, Append(out, s[i]), step_results, depends_on)
             ELSE IF param_name \in DOMAIN params
             THEN Substitute(s, i + r + 4, params, out \o marker, step_results, depends_on)
             ELSE LET param_value ==
                        ExtractParameterValue(param_name, step_results, depends_on)
                  IN  IF param_value.none
                      THEN ResolutionFailed
                      ELSE Substitute(s, i + r + 4,
                                      DictSet(params, param_name, param_value.val),
                                      out \o marker, step_results, depends_on)

ResolveQueryParameters(sql_template, step_results, depends_on) ==
    Substitute(sql_template, 1, EmptyDict, <<>>, step_results, depends_on)

-----------------------------------------------------------------------------
(* _format_step_result *)

RECURSIVE Join(_, _)
\* sep.join(parts) for a sequence of strs
Join(parts, sep) ==
    IF parts = <<>> THEN <<>>
    ELSE IF Len(parts) = 1 THEN parts[1]
    ELSE parts[1] \o sep \o Join(Tail(parts), sep)

\* s * n
Repeat(s, n) == [i \in 1..n |-> s]

\* f"{s:<w}" (left-justified, padded with spaces to width w)
LJust(s, w) == s \o Repeat(" ", Max(0, w - Len(s)))

\* str(row.get(col, ''))
CellStr(row, col) == IF RowHas(row, col) THEN PyStr(RowGet(row, col)) ELSE <<>>

\* dict.get(key, default) on a step
StepDescription(step_info, default) ==
    IF "description" \in DOMAIN step_info THEN <<step_info.description>> ELSE default

RECURSIVE MaxCellLen(_, _)
\* max((len(str(row.get(col, ''))) for row in raw_results), default=0)
MaxCellLen(raw_results, col) ==
    IF raw_results = <<>> THEN 0
    ELSE Max(Len(CellStr(Head(raw_results), col)), MaxCellLen(Tail(raw_results), col))

\* ColWidth without the cells: len(col)
ColWidth_HeaderOnly(raw_results, col) == Len(col)

\* max(len(col), max(len(str(cell))))
ColWidth(raw_results, col) == Max(Len(col), MaxCellLen(raw_results, col))

SEP == <<" ", "|", " ">>

\* lines 163-170 raise an exception: never for rows that are dicts with str
\* keys, since row.get(col, '') gives '' for a missing column and len, str and
\* the format specs are defined for every column name and cell value
FormatRaises(raw_results) == FALSE

\* lines 173-176, the except branch: the column names, then each row's values
SimpleLines(raw_results) ==
    << Join([i \in 1..Len(raw_results[1]) |-> raw_results[1][i][1]], SEP) >>
        \o [r \in 1..Len(raw_results) |->
               Join([i \in 1..Len(raw_results[r]) |-> PyStr(raw_results[r][i][2])], SEP)]

FormatStepResult(step_info, raw_results) ==
    LET step_id == IntStr(step_info.step)
        description == StepDescription(step_info, <<"chaxun buzhou ">> \o step_id)
        columns == [i \in 1..Len(raw_results[1]) |-> raw_results[1][i][1]]
        header == Join([i \in 1..Len(columns) |->
                            LJust(columns[i], ColWidth(raw_results, columns[i]))], SEP)
        row_data(row) == Join([i \in 1..Len(columns) |->
                            LJust(CellStr(row, columns[i]),
                                  ColWidth(raw_results, columns[i]))], SEP)
        result_lines ==
            << <<"Buzhou ">> \o step_id \o <<" - ">> \o description \o <<": (gong ">>
                 \o IntStr(Len(raw_results)) \o <<" tiao jilu)">> >>
            \o (IF FormatRaises(raw_results) THEN SimpleLines(raw_results)
                ELSE <<header, Repeat("-", Len(header))>>
                         \o [i \in 1..Len(raw_results) |-> row_data(raw_results[i])])
    IN  IF raw_results = <<>>
        THEN <<"Buzhou ">> \o step_id \o <<" (">> \o description
                 \o <<"): weizhaodao shuju">>
        ELSE Join(result_lines, <<"\n">>)

-----------------------------------------------------------------------------
(* execute_queries_and_format_with_dependencies: one iteration of the for loop.  *)
(* r is the state of the loop: [step_results, output_results, rest], where rest  *)
(* holds the steps after the current one.                                       *)

\* OnResolutionFailure with `break` in the place of `continue`
OnResolutionFailure_Break(r, step_info) ==
    LET step_id == IntStr(step_info.step)
        description == StepDescription(step_info, <<"Executing query ">> \o step_id)
        error_msg == <<"Step ">> \o step_id \o <<" (">> \o description
            \o <<"): Execution failed because a dependent query returned no results.">>
    IN  [step_results |-> r.step_results,
         output_results |-> Append(r.output_results,
             [description |-> description, formatted_text |-> error_msg,
              raw_results |-> <<>>, error |-> <<"Dependency resolution failed">>]),
         rest |-> <<>>]

\* the branch `if sql_query is None` (lines 33-36): record the failure, continue
OnResolutionFailure(r, step_info) ==
    LET step_id == IntStr(step_info.step)
        description == StepDescription(step_info, <<"Executing query ">> \o step_id)
        error_msg == <<"Step ">> \o step_id \o <<" (">> \o description
            \o <<"): Execution failed because a dependent query returned no results.">>
    IN  [step_results |-> r.step_results,
         output_results |-> Append(r.output_results,
             [description |-> description, formatted_text |-> error_msg,
              raw_results |-> <<>>, error |-> <<"Dependency resolution failed">>]),
         rest |-> r.rest]

\* OnStoreError with `pass` in the place of the append
OnStoreError_Swallow(r, step_info, sql_query, e) ==
    [step_results |-> r.step_results, output_results |-> r.output_results,
     rest |-> r.rest]

\* OnStoreError with step_results_for_deps[query_id] = [] added
OnStoreError_StoresEmpty(r, step_info, sql_query, e) ==
    LET step_id == IntStr(step_info.step)
        description == StepDescription(step_info, <<"Executing query ">> \o step_id)
        error_msg == <<"Step ">> \o step_id \o <<" failed to execute: ">> \o e
                         \o <<"\n", "SQL: ">> \o sql_query
    IN  [step_results |-> DictSet(r.step_results, step_info.query_id, <<>>),
         output_results |-> Append(r.output_results,
             [description |-> description, formatted_text |-> error_msg,
              raw_results |-> <<>>, error |-> e]),
         rest |-> r.rest]

\* the handler `except SQLAlchemyError as e` (lines 57-59)
OnStoreError(r, step_info, sql_query, e) ==
    LET step_id == IntStr(step_info.step)
        description == StepDescription(step_info, <<"Executing query ">> \o step_id)
        error_msg == <<"Step ">> \o step_id \o <<" failed to execute: ">> \o e
                         \o <<"\n", "SQL: ">> \o sql_query
    IN  [step_results |-> r.step_results,
         output_results |-> Append(r.output_results,
             [description |-> description, formatted_text |-> error_msg,
              raw_results |-> <<>>, error |-> e]),
         rest |-> r.rest]

\* OnStoreRows with an "error" key in the record of an empty result
OnStoreRows_EmptyIsError(r, step_info, raw_results) ==
    LET step_id == IntStr(step_info.step)
        description == StepDescription(step_info, <<"Executing query ">> \o step_id)
        msg == <<"Step ">> \o step_id \o <<" (">> \o description
                   \o <<"): No matching data found">>
    IN  [step_results |-> DictSet(r.step_results, step_info.query_id, raw_results),
         output_results |-> Append(r.output_results,
             IF raw_results # <<>>
             THEN [description |-> description,
                   formatted_text |-> FormatStepResult(step_info, raw_results),
                   raw_results |-> raw_results]
             ELSE [description |-> description, formatted_text |-> msg,
                   raw_results |-> <<>>, error |-> msg]),
         rest |-> r.rest]

\* the body of the try block after connection.execute returned (lines 43-55)
OnStoreRows(r, step_info, raw_results) ==
    LET step_id == IntStr(step_info.step)
        description == StepDescription(step_info, <<"Executing query ">> \o step_id)
        msg == <<"Step ">> \o step_id \o <<" (">> \o description
                   \o <<"): No matching data found">>
    IN  [step_results |-> DictSet(r.step_results, step_info.query_id, raw_results),
         output_results |-> Append(r.output_results,
             IF raw_results # <<>>
             THEN [description |-> description,
                   formatted_text |-> FormatStepResult(step_info, raw_results),
                   raw_results |-> raw_results]
             ELSE [description |-> description, formatted_text |-> msg,
                   raw_results |-> <<>>]),
         rest |-> r.rest]

\* step_info.get("depends_on", [])
StepDependsOn(step_info) ==
    IF "depends_on" \in DOMAIN step_info THEN step_info.depends_on ELSE <<>>

\* line 31: the resolver's answer for this step
ResolveStep(step_info, step_results) ==
    ResolveQueryParameters(step_info.sql, step_results, StepDependsOn(step_info))

\* one iteration; store_outcome is what connection.execute does if it is called
ProcessStep(r, step_info, store_outcome) ==
    LET q == ResolveStep(step_info, r.step_results)
    IN  IF ~q.ok THEN OnResolutionFailure(r, step_info)
        ELSE IF store_outcome.ok THEN OnStoreRows(r, step_info, store_outcome.rows)
        ELSE OnStoreError(r, step_info, q.sql, store_outcome.error)

\* execution_plan.get("execution_plan", [])
ExecutionSteps(execution_plan) ==
    IF "execution_plan" \in DOMAIN execution_plan THEN execution_plan.execution_plan
    ELSE <<>>

-----------------------------------------------------------------------------
(* _translate_sql_for_dialect *)

UPPER == <<"A", "B", "C", "D", "E", "F", "G", "H", "I", "J", "K", "L", "M",
           "N", "O", "P", "Q", "R", "S", "T", "U", "V", "W", "X", "Y", "Z">>

LOWER == <<"a", "b", "c", "d", "e", "f", "g", "h", "i", "j", "k", "l", "m",
           "n", "o", "p", "q", "r", "s", "t", "u", "v", "w", "x", "y", "z">>

\* the case fold of re.IGNORECASE on one token
Fold(c) == IF \E k \in 1..Len(UPPER) : UPPER[k] = c
           THEN LOWER[CHOOSE k \in 1..Len(UPPER) : UPPER[k] = c]
           ELSE c

\* re.escape(key) matches at position i, ignoring case
MatchesAt(s, i, key) ==
    /\ i + Len(key) - 1 <= Len(s)
    /\ \A k \in 1..Len(key) : Fold(s[i + k - 1]) = Fold(key[k])

RECURSIVE ReplaceAll(_, _, _, _)
\* re.sub(re.escape(key), repl, s, flags=re.IGNORECASE) from position i
ReplaceAll(s, i, key, repl) ==
    IF i > Len(s) THEN <<>>
    ELSE IF MatchesAt(s, i, key) THEN repl \o ReplaceAll(s, i + Len(key), key, repl)
    ELSE <<s[i]>> \o ReplaceAll(s, i + 1, key, repl)

KEY_curdate == <<"C", "U", "R", "D", "A", "T", "E", "(", ")">>

KEY_now == <<"N", "O", "W", "(", ")">>

KEY_year == <<"Y", "E", "A", "R", "(">> \o KEY_curdate \o <<")">>

KEY_date_format == <<"D", "A", "T", "E", "_", "F", "O", "R", "M", "A", "T", "(",
                     "d", "a", "t", "e", "_", "c", "o", "l", "u", "m", "n", ",", " ",
                     "'", "%", "Y", "-", "%", "m", "'", ")">>

\* the dict translations, in insertion order
Translations ==
    << <<KEY_curdate, <<"date('now')">> >>,
       <<KEY_now, <<"datetime('now', 'localtime')">> >>,
       <<KEY_year, <<"strftime('%Y', 'now')">> >>,
       <<KEY_date_format, <<"strftime('%Y-%m', date_column)">> >> >>

RECURSIVE ApplyTranslations(_, _)
ApplyTranslations(sql_query, translations) ==
    IF translations = <<>> THEN sql_query
    ELSE ApplyTranslations(
             ReplaceAll(sql_query, 1, Head(translations)[1], Head(translations)[2]),
             Tail(translations))

\* db_type is the lower-cased database type
TranslateSqlForDialect(sql_query, db_type) ==
    IF db_type = "sqlite" THEN ApplyTranslations(sql_query, Translations)
    ELSE sql_query

-----------------------------------------------------------------------------
(* generate_sql_with_dependencies, lines 181-213: the check of the model output. *)
(* An answer of the model is [parses |-> FALSE] when json.loads raises, and      *)
(* [parses |-> TRUE, json |-> d] otherwise; the value of d.execution_plan is     *)
(* [type |-> "list", items |-> <<...>>] when it is a list.                       *)

REQUIRED_KEYS == <<"execution_plan", "tables_used", "total_steps", "has_dependencies">>

STEP_REQUIRED_KEYS == <<"step", "query_id", "description", "sql", "depends_on", "table_used">>

\* the first key of keys that d lacks, 0 when it has them all
FirstMissing(d, keys) ==
    IF \E k \in 1..Len(keys) : keys[k] \notin DOMAIN d
    THEN CHOOSE k \in 1..Len(keys) :
             /\ keys[k] \notin DOMAIN d
             /\ \A j \in 1..(k - 1) : keys[j] \in DOMAIN d
    ELSE 0

\* the str the except clause returns
ParseErrorText(detail) ==
    [is_str |-> TRUE,
     text |-> <<"cuowu: jiexi moxing fanhui de JSON shibai. cuowu xiangqing: ">> \o detail]

\* FirstBadStep looking at the first step only
FirstBadStep_FirstOnly(items) ==
    IF items # <<>> /\ FirstMissing(items[1], STEP_REQUIRED_KEYS) # 0 THEN 1 ELSE 0

\* the first step of the plan that lacks a required key, 0 when none does
FirstBadStep(items) ==
    IF \E i \in 1..Len(items) : FirstMissing(items[i], STEP_REQUIRED_KEYS) # 0
    THEN CHOOSE i \in 1..Len(items) :
             /\ FirstMissing(items[i], STEP_REQUIRED_KEYS) # 0
             /\ \A j \in 1..(i - 1) : FirstMissing(items[j], STEP_REQUIRED_KEYS) = 0
    ELSE 0

\* step["sql"] = _translate_sql_for_dialect(step["sql"], db_type)
TranslateStep(step, db_type) ==
    [k \in DOMAIN step |->
        IF k = "sql" THEN TranslateSqlForDialect(step[k], db_type) ELSE step[k]]

\* the return value: the error str, or result_json with the translated steps
GenerateSqlWithDependencies(answer, db_type) ==
    IF ~answer.parses THEN ParseErrorText(<<"JSONDecodeError">>)
    ELSE LET result_json == answer.json
             missing == FirstMissing(result_json, REQUIRED_KEYS)
         IN  IF missing # 0
             THEN ParseErrorText(<<"moxing fanhui de JSON queshao '",
                                   REQUIRED_KEYS[missing], "' jian.">>)
             ELSE IF result_json.execution_plan.type # "list"
             THEN ParseErrorText(<<"execution_plan bixu shi liebiao geshi">>)
             ELSE LET items == result_json.execution_plan.items
                      bad == FirstBadStep(items)
                  IN  IF bad # 0
                      THEN ParseErrorText(
                               <<"zhixing jihua di">> \o IntStr(bad) \o <<"bu queshao '",
                                 STEP_REQUIRED_KEYS[FirstMissing(items[bad],
                                                                 STEP_REQUIRED_KEYS)],
                                 "' jian">>)
                      ELSE [is_str |-> FALSE,
                            plan |-> [k \in (DOMAIN result_json) \cup {"optimization_info"} |->
                                IF k = "optimization_info" THEN "N/A"
                                ELSE IF k = "execution_plan"
                                THEN [i \in 1..Len(items) |-> TranslateStep(items[i], db_type)]
                                ELSE result_json[k]]]

-----------------------------------------------------------------------------
(* validate_final_sql_result, lines 290-305, and the test of app.py line 249 *)

JTrue == [type |-> "bool", b |-> TRUE]

JFalse == [type |-> "bool", b |-> FALSE]

JString(s) == [type |-> "str", s |-> s]

\* bool(v) of a JSON value
Truthy(v) ==
    IF v.type = "bool" THEN v.b
    ELSE IF v.type = "str" THEN v.s # <<>>
    ELSE FALSE

\* the dict the function returns
ValidateFinalSqlResult(answer) ==
    IF ~answer.parses
    THEN [is_valid |-> JFalse,
          reason |-> <<"jiexi yanzheng jieguo shibai: ", "JSONDecodeError">>]
    ELSE IF "is_valid" \notin DOMAIN answer.json
    THEN [is_valid |-> JFalse,
          reason |-> <<"jiexi yanzheng jieguo shibai: ",
                       "moxing fanhui de JSON queshao 'is_valid' jian.">>]
    ELSE answer.json

\* IsValid with the test `validation_result.get("is_valid") == "true"`
IsValid_StringCompare(validation_result) ==
    /\ "is_valid" \in DOMAIN validation_result
    /\ validation_result.is_valid = [type |-> "str", s |-> <<"t", "r", "u", "e">>]

\* validation_result.get("is_valid", False), as a truth value
IsValid(validation_result) ==
    IF "is_valid" \in DOMAIN validation_result THEN Truthy(validation_result.is_valid)
    ELSE FALSE

\* Reason without the lookup of the validator's reason
Reason_AlwaysDefault(validation_result) == <<"weizhi yuanyin">>

\* validation_result.get("reason", "weizhi yuanyin")
Reason(validation_result) ==
    IF "reason" \in DOMAIN validation_result THEN validation_result.reason
    ELSE <<"weizhi yuanyin">>

-----------------------------------------------------------------------------
(* The inputs of the model: plans the oracle may return, answers of the store. *)

MaxPlanLen == 3

COL_id == <<"i", "d">>

COL_name == <<"n", "a", "m", "e">>

PH_ids == <<"{", "{", "i", "d", "s", "}", "}">>

PH_name == <<"{", "{", "n", "a", "m", "e", "}", "}">>

\* a step without placeholders
StepFind ==
    [step |-> 1, query_id |-> "find_ids", description |-> "find the ids",
     sql |-> <<"SELECT id, name FROM t">>, depends_on |-> <<>>, table_used |-> "t"]

\* a step with a list-typed placeholder
StepByIds ==
    [step |-> 2, query_id |-> "by_ids", description |-> "rows of the ids",
     sql |-> <<"SELECT id FROM u WHERE id IN ">> \o PH_ids,
     depends_on |-> <<"find_ids">>, table_used |-> "u"]

\* a step with a scalar placeholder used twice and a list-typed placeholder
StepByName ==
    [step |-> 3, query_id |-> "by_name", description |-> "rows of the name",
     sql |-> <<"SELECT * FROM v WHERE a = ">> \o PH_name \o <<" AND id IN ">> \o PH_ids
                 \o <<" OR b = ">> \o PH_name,
     depends_on |-> <<"by_ids", "find_ids">>, table_used |-> "v"]

PH_total == <<"{", "{", "t", "o", "t", "a", "l", "}", "}">>

\* a step whose placeholder no dependency can supply
StepOrphan ==
    [step |-> 4, query_id |-> "by_total", description |-> "rows of the total",
     sql |-> <<"SELECT id FROM w WHERE n > ">> \o PH_total,
     depends_on |-> <<>>, table_used |-> "w"]

StepPool == {StepFind, StepByIds, StepByName, StepOrphan}

RECURSIVE SeqsUpTo(_, _)
\* the sequences over S of length 1..n
SeqsUpTo(S, n) ==
    IF n = 0 THEN {}
    ELSE LET shorter == SeqsUpTo(S, n - 1)
         IN  {<<x>> : x \in S} \cup shorter
                 \cup {Append(q, x) : q \in shorter, x \in S}

\* what generate_sql_with_dependencies returns for a well-formed answer
PlanOf(steps) ==
    [execution_plan |-> steps, tables_used |-> <<"t", "u", "v", "w">>,
     total_steps |-> Len(steps), has_dependencies |-> TRUE,
     optimization_info |-> "N/A"]

RunPlans == {PlanOf(steps) : steps \in SeqsUpTo(StepPool, MaxPlanLen) \cup {<<>>}}

ROWS_one == << << <<COL_id, IntV(<<"1">>)>> >> >>

ROWS_two == << << <<COL_id, IntV(<<"1">>)>>, <<COL_name, StrV(<<"A">>)>> >>,
               << <<COL_id, IntV(<<"1", "0">>)>>, <<COL_name, StrV(<<"B", "B">>)>> >> >>

\* what connection.execute may do: raise SQLAlchemyError, or return rows
StoreOutcomes ==
    {[ok |-> FALSE, error |-> <<"(sqlite3.OperationalError) no such table">>],
     [ok |-> TRUE, rows |-> <<>>],
     [ok |-> TRUE, rows |-> ROWS_one],
     [ok |-> TRUE, rows |-> ROWS_two]}

\* what DatabaseService(config) and engine.connect() may do
SetupOutcomes == {"ok", "FileNotFoundError", "ValueError", "ConnectionError", "connect raises"}

\* config.py: DATABASE_CONFIG['database_type']
DB_TYPE == "sqlite"

\* app.py line 168: st.slider(..., 1, 5, 3)
SLIDER_MIN == 1

SLIDER_MAX == 5

\* a step whose SQL holds a key of the translation table
StepNow ==
    [step |-> 1, query_id |-> "today", description |-> "rows of today",
     sql |-> <<"SELECT * FROM t WHERE d < ", "n", "o", "w", "(", ")">>,
     depends_on |-> <<>>, table_used |-> "t"]

\* the JSON object of a model output with these steps
RawPlan(steps) ==
    [execution_plan |-> [type |-> "list", items |-> steps],
     tables_used |-> <<"t", "u", "v", "w">>, total_steps |-> Len(steps),
     has_dependencies |-> TRUE]

\* d without the key k
Without(d, k) == [x \in (DOMAIN d) \ {k} |-> d[x]]

WellFormedAnswers ==
    {[parses |-> TRUE, json |-> RawPlan(<<StepFind, StepByIds>>)],
     [parses |-> TRUE, json |-> RawPlan(<<StepByIds, StepFind>>)],
     [parses |-> TRUE, json |-> RawPlan(<<StepNow>>)],
     [parses |-> TRUE, json |-> RawPlan(<<>>)]}

MalformedAnswers ==
    {[parses |-> FALSE],
     [parses |-> TRUE, json |-> Without(RawPlan(<<StepFind>>), "tables_used")],
     [parses |-> TRUE, json |-> Without(RawPlan(<<StepFind>>), "execution_plan")],
     [parses |-> TRUE,
      json |-> [RawPlan(<<>>) EXCEPT !.execution_plan = [type |-> "str"]]],
     [parses |-> TRUE,
      json |-> RawPlan(<<StepFind, Without(StepByIds, "depends_on")>>)]}

\* what requests.post may do in call_llm_api: answer with one of the contents, or
\* raise (requests.exceptions.Timeout after 60 seconds is a RequestException)
LlmResponses(contents) ==
    {[ok |-> TRUE, content |-> c] : c \in contents}
        \cup {[ok |-> FALSE, exception |-> "Timeout"]}

\* CallLlmApi returning, for a failed call, a JSON object that carries the failure
\* text under the key is_valid
CallLlmApi_FailureAsContent(response) ==
    IF response.ok THEN response.content
    ELSE [parses |-> TRUE,
          json |-> [is_valid |-> JString(<<"Error: Failed to call the Gemini API. Details: ",
                                           response.exception>>)]]

\* call_llm_api lines 38-55: the text the caller gets; a failed call gives a
\* text that json.loads rejects
CallLlmApi(response) ==
    IF response.ok THEN response.content
    ELSE [parses |-> FALSE,
          text |-> <<"Error: Failed to call the Gemini API. Details: ",
                     response.exception>>]

\* what the generation call may return
OracleAnswers == {CallLlmApi(r) : r \in LlmResponses(WellFormedAnswers \cup MalformedAnswers)}

\* what the model may answer to the validation prompt
ValidatorOutputs ==
    {[parses |-> FALSE],
     [parses |-> TRUE, json |-> [reason |-> <<"no verdict">>]],
     [parses |-> TRUE, json |-> [is_valid |-> JTrue, reason |-> <<"looks right">>]],
     [parses |-> TRUE, json |-> [is_valid |-> JFalse, reason |-> <<"wrong join">>]],
     [parses |-> TRUE, json |-> [is_valid |-> JFalse, reason |-> <<"wrong filter">>]],
     [parses |-> TRUE, json |-> [is_valid |-> JFalse]],
     [parses |-> TRUE,
      json |-> [is_valid |-> JString(<<"f", "a", "l", "s", "e">>),
                reason |-> <<"wrong join">>]]}

\* what the validation call may return
ValidatorAnswers == {CallLlmApi(r) : r \in LlmResponses(ValidatorOutputs)}

-----------------------------------------------------------------------------
(* app.py lines 216-258: the generate/validate loop *)

\* AttemptRange with range(1, max_attempts + 2)
AttemptRange_OneMore(limit) == 1..(limit + 1)

\* range(1, max_attempts + 1)
AttemptRange(limit) == 1..limit

\* line 258: the text of st.error when the loop ended without a plan
NO_VALID_SQL == <<"wufa shengcheng youxiao de SQL chaxun">>

\* lines 257-258 after iteration n did not break: the latest st.error
ErrorAfterFailedAttempt(n, limit, shown) ==
    IF n + 1 \in 1..limit THEN shown ELSE Some(NO_VALID_SQL)

\* the state the loop is in after iteration n did not break
AfterFailedAttempt(n, limit) ==
    IF n + 1 \in AttemptRange(limit) THEN "Attempting" ELSE "Exhausted"

\* the oracle's answer is not a plan: unparseable, a required key missing,
\* execution_plan not a list, or a step without one of its six keys
IsMalformedAnswer(answer) ==
    \/ ~answer.parses
    \/ /\ answer.parses
       /\ \/ \E k \in {"execution_plan", "tables_used", "total_steps", "has_dependencies"} :
                 k \notin DOMAIN answer.json
          \/ answer.json.execution_plan.type # "list"
          \/ \E i \in 1..Len(answer.json.execution_plan.items) :
                 \E k \in {"step", "query_id", "description", "sql", "depends_on",
                           "table_used"} :
                     k \notin DOMAIN answer.json.execution_plan.items[i]

\* one iteration of `for attempt in range(1, max_attempts + 1)`
Attempt ==
    /\ pc = "Attempting"
    /\ attempt + 1 \in AttemptRange(max_attempts)
    /\ \E answer \in OracleAnswers, verdict \in ValidatorAnswers :
        LET n == attempt + 1
            execution_plan == GenerateSqlWithDependencies(answer, DB_TYPE)
            validation_result == ValidateFinalSqlResult(verdict)
        IN  /\ attempt' = n
            /\ oracle_calls' = oracle_calls + 1
            /\ malformed_answers' =
                   malformed_answers + (IF IsMalformedAnswer(answer) THEN 1 ELSE 0)
            /\ IF execution_plan.is_str
               THEN \* line 233-235: continue
                    /\ attempt_log' = [fed |-> last_error, answer |-> answer,
                                       returned |-> execution_plan,
                                       validated |-> FALSE, verdict |-> PyNone]
                    /\ pc' = AfterFailedAttempt(n, max_attempts)
                    /\ st_error' = ErrorAfterFailedAttempt(n, max_attempts,
                           Some(<<"shengcheng shibai: ">> \o execution_plan.text))
                    /\ UNCHANGED <<last_error, final_execution_plan, validator_calls,
                                   rejections, st_warning>>
               ELSE /\ attempt_log' = [fed |-> last_error, answer |-> answer,
                                       returned |-> execution_plan,
                                       validated |-> TRUE, verdict |-> Some(verdict)]
                    /\ validator_calls' = validator_calls + 1
                    /\ IF IsValid(validation_result)
                       THEN \* lines 250-252: break
                            /\ final_execution_plan' = Some(execution_plan.plan)
                            /\ pc' = "Succeeded"
                            /\ UNCHANGED <<last_error, rejections, st_warning, st_error>>
                       ELSE \* lines 254-255
                            /\ last_error' = Some(Reason(validation_result))
                            /\ rejections' = rejections + 1
                            /\ pc' = AfterFailedAttempt(n, max_attempts)
                            /\ st_warning' = Some(<<"yanzheng shibai: ">>
                                                     \o Reason(validation_result))
                            /\ st_error' = ErrorAfterFailedAttempt(n, max_attempts, st_error)
                            /\ UNCHANGED final_execution_plan
    /\ UNCHANGED <<max_attempts, run_vars, call_vars>>

-----------------------------------------------------------------------------
(* execute_queries_and_format_with_dependencies *)

\* Plan taken from the model output instead of the ingested plan
Plan_Untranslated ==
    [final_execution_plan.val EXCEPT
        !.execution_plan = attempt_log.answer.json.execution_plan.items]

\* app.py lines 265-268: the plan the runner is given
Plan == final_execution_plan.val

Steps == ExecutionSteps(Plan)

\* StartExecution with `return []` in the except clause of line 15
StartExecution_ReturnsEmpty ==
    /\ pc = "Succeeded"
    /\ \E setup \in SetupOutcomes :
        IF setup = "ok"
        THEN /\ connection' = "open"
             /\ step_results_for_deps' = EmptyDict
             /\ output_results' = <<>>
             /\ step_iter' = Steps
             /\ pc' = "Running"
        ELSE IF setup = "connect raises"
        THEN /\ pc' = "Error"
             /\ UNCHANGED <<connection, step_results_for_deps, output_results, step_iter>>
        ELSE /\ output_results' = <<>>
             /\ pc' = "Executed"
             /\ UNCHANGED <<connection, step_results_for_deps, step_iter>>
    /\ UNCHANGED <<loop_vars, exec_log, call_vars>>

\* lines 12-20: the engine and the connection are set up, or the error record is returned
StartExecution ==
    /\ pc = "Succeeded"
    /\ \E setup \in SetupOutcomes :
        IF setup = "ok"
        THEN /\ connection' = "open"
             /\ step_results_for_deps' = EmptyDict
             /\ output_results' = <<>>
             /\ step_iter' = Steps
             /\ pc' = "Running"
        ELSE IF setup = "connect raises"
        THEN /\ pc' = "Error"
             /\ UNCHANGED <<connection, step_results_for_deps, output_results, step_iter>>
        ELSE /\ output_results' =
                    << [description |-> <<"Database Connection Error">>,
                        formatted_text |-> <<"Error: ", setup>>,
                        raw_results |-> <<>>, error |-> <<setup>>] >>
             /\ pc' = "Executed"
             /\ UNCHANGED <<connection, step_results_for_deps, step_iter>>
    /\ UNCHANGED <<loop_vars, exec_log, call_vars>>

\* lines 24-59: one iteration of the for loop
RunStep ==
    /\ pc = "Running"
    /\ step_iter # <<>>
    /\ \E store_outcome \in StoreOutcomes :
        LET step_info == Head(step_iter)
            q == ResolveStep(step_info, step_results_for_deps)
            r == ProcessStep([step_results |-> step_results_for_deps,
                              output_results |-> output_results,
                              rest |-> Tail(step_iter)],
                             step_info, store_outcome)
        IN  /\ step_results_for_deps' = r.step_results
            /\ output_results' = r.output_results
            /\ step_iter' = r.rest
            /\ exec_log' = Append(exec_log,
                   [pos |-> Len(Steps) - Len(step_iter) + 1, sent |-> q.ok,
                    sql |-> q.sql, params |-> q.params,
                    outcome |-> IF q.ok THEN store_outcome
                                ELSE [ok |-> FALSE, error |-> <<"not sent">>]])
    /\ UNCHANGED <<loop_vars, pc, connection, call_vars>>

\* RunStepRaises with the connection left as it is
RunStepRaises_Leaks ==
    /\ pc = "Running"
    /\ step_iter # <<>>
    /\ pc' = "Error"
    /\ UNCHANGED <<loop_vars, run_vars, call_vars>>

\* lines 18-59: an exception that no except clause of the loop catches (anything
\* but SQLAlchemyError) leaves the with block, which closes the connection, and
\* reaches the handler of app.py line 313
RunStepRaises ==
    /\ pc = "Running"
    /\ step_iter # <<>>
    /\ connection' = "closed"
    /\ pc' = "Error"
    /\ UNCHANGED <<loop_vars, step_results_for_deps, output_results, step_iter, exec_log,
                   call_vars>>

\* line 61: return output_results; the with block closes the connection
ReturnResults ==
    /\ pc = "Running"
    /\ step_iter = <<>>
    /\ connection' = "closed"
    /\ pc' = "Executed"
    /\ UNCHANGED <<loop_vars, step_results_for_deps, output_results, step_iter, exec_log,
                   call_vars>>

\* the request right after the loop accepted a plan in its first attempt
InitRun ==
    /\ max_attempts = 3
    /\ attempt = 1
    /\ last_error = PyNone
    /\ final_execution_plan \in {Some(p) : p \in RunPlans}
    /\ pc = "Succeeded"
    /\ oracle_calls = 1
    /\ validator_calls = 1
    /\ rejections = 0
    /\ malformed_answers = 0
    /\ st_warning = PyNone
    /\ st_error = PyNone
    /\ attempt_log \in
           {[fed |-> PyNone, answer |-> [parses |-> TRUE, json |-> RawPlan(p.execution_plan)],
             returned |-> [is_str |-> FALSE, plan |-> p], validated |-> TRUE,
             verdict |-> Some([parses |-> TRUE,
                               json |-> [is_valid |-> JTrue, reason |-> <<"looks right">>]])]
              : p \in {final_execution_plan.val}}
    /\ connection = "none"
    /\ step_results_for_deps = EmptyDict
    /\ output_results = <<>>
    /\ step_iter = <<>>
    /\ exec_log = <<>>
    /\ call_args = PyNone
    /\ call_result = <<>>

NextRun == StartExecution \/ RunStep \/ RunStepRaises \/ ReturnResults

SpecRun == InitRun /\ [][NextRun]_vars

-----------------------------------------------------------------------------
(* One request: the loop, then the run of the accepted plan. *)

\* app.py lines 216-217, before the first iteration
Init ==
    /\ max_attempts \in SLIDER_MIN..SLIDER_MAX
    /\ attempt = 0
    /\ last_error = PyNone
    /\ final_execution_plan = PyNone
    /\ pc = "Attempting"
    /\ oracle_calls = 0
    /\ validator_calls = 0
    /\ rejections = 0
    /\ malformed_answers = 0
    /\ st_warning = PyNone
    /\ st_error = PyNone
    /\ attempt_log = PyNone
    /\ connection = "none"
    /\ step_results_for_deps = EmptyDict
    /\ output_results = <<>>
    /\ step_iter = <<>>
    /\ exec_log = <<>>
    /\ call_args = PyNone
    /\ call_result = <<>>

Next == Attempt \/ StartExecution \/ RunStep \/ RunStepRaises \/ ReturnResults

Spec == Init /\ [][Next]_vars

\* the handler is one thread of control: an iteration that can run does run
FairSpec == Spec /\ WF_vars(Attempt)

-----------------------------------------------------------------------------
(* Direct calls of _resolve_query_parameters on chosen arguments. *)

MaxResolveCalls == 2

COL_department_id == <<"d", "e", "p", "a", "r", "t", "m", "e", "n", "t", "_", "i", "d">>

COL_product_id == <<"p", "r", "o", "d", "u", "c", "t", "_", "i", "d">>

COL_qty == <<"q", "t", "y">>

\* "{{" name "}}"
Placeholder(param_name) == <<"{", "{">> \o param_name \o <<"}", "}">>

PH_department_id == Placeholder(COL_department_id)

PH_product_ids == Placeholder(COL_product_id \o <<"s">>)

PH_names == Placeholder(COL_name \o <<"s">>)

\* the sql templates of the direct calls
ResolveTemplates ==
    {<<"SELECT * FROM employees WHERE department_id = ">> \o PH_department_id,
     <<"SELECT * FROM products WHERE id IN ">> \o PH_product_ids,
     <<"SELECT * FROM u WHERE name IN ">> \o PH_names,
     StepByName.sql,
     StepOrphan.sql,
     StepFind.sql}

ROWS_dept == << << <<COL_department_id, IntV(<<"7">>)>> >> >>

ROWS_ids == << << <<COL_id, IntV(<<"1">>)>> >>,
               << <<COL_id, IntV(<<"2">>)>> >>,
               << <<COL_id, IntV(<<"1">>)>> >> >>

ROWS_product == << << <<COL_product_id, IntV(<<"1">>)>>, <<COL_name, StrV(<<"A">>)>> >>,
                   << <<COL_product_id, IntV(<<"2">>)>>, <<COL_name, NullV>> >> >>

ROWS_null == << << <<COL_name, NullV>>, <<COL_id, IntV(<<"1">>)>> >> >>

ROWS_other == << << <<COL_qty, IntV(<<"5">>)>>, <<COL_department_id, IntV(<<"7">>)>> >> >>

\* what a stored step may hold
StoredRows == {<<>>, ROWS_one, ROWS_two, ROWS_dept, ROWS_ids, ROWS_product, ROWS_null,
               ROWS_other}

\* the step_results of the direct calls: any of the two steps stored or not
ResolveStepResults ==
    UNION {[ids -> StoredRows] : ids \in SUBSET {"find_top_dept", "find_ids"}}

ResolveDependsOn ==
    {<<>>, <<"find_top_dept">>, <<"find_ids">>, <<"find_top_dept", "find_ids">>,
     <<"find_ids", "find_top_dept">>}

\* StepResultsAfterResolve with `step_results.pop(dep_query_id)` for each dependency
StepResultsAfterResolve_Pop(step_results, depends_on) ==
    [q \in (DOMAIN step_results) \ {depends_on[i] : i \in 1..Len(depends_on)} |->
        step_results[q]]

\* step_results after a call: the resolver only reads it (lines 101-106)
StepResultsAfterResolve(step_results, depends_on) == step_results

\* one call of _resolve_query_parameters(sql_template, step_results, depends_on)
CallResolve ==
    /\ pc = "Idle"
    /\ call_args # PyNone
    /\ Len(call_result) < MaxResolveCalls
    /\ LET a == call_args.val
       IN  /\ call_result' = Append(call_result,
                  ResolveQueryParameters(a.sql_template, a.step_results, a.depends_on))
           /\ call_args' = Some([a EXCEPT !.step_results =
                  StepResultsAfterResolve(a.step_results, a.depends_on)])
    /\ UNCHANGED <<loop_vars, pc, run_vars>>

\* no request is being handled
NoRequest ==
    /\ max_attempts = 3
    /\ attempt = 0
    /\ last_error = PyNone
    /\ final_execution_plan = PyNone
    /\ pc = "Idle"
    /\ oracle_calls = 0
    /\ validator_calls = 0
    /\ rejections = 0
    /\ malformed_answers = 0
    /\ st_warning = PyNone
    /\ st_error = PyNone
    /\ attempt_log = PyNone
    /\ connection = "none"
    /\ step_results_for_deps = EmptyDict
    /\ output_results = <<>>
    /\ step_iter = <<>>
    /\ exec_log = <<>>

InitResolve ==
    /\ NoRequest
    /\ call_args \in {Some([sql_template |-> t, step_results |-> r, depends_on |-> d]) :
                         t \in ResolveTemplates, r \in ResolveStepResults,
                         d \in ResolveDependsOn}
    /\ call_result = <<>>

NextResolve == CallResolve

SpecResolve == InitResolve /\ [][NextResolve]_vars

-----------------------------------------------------------------------------
(* Direct calls of _format_step_result on chosen arguments. *)

MaxFormatRows == 2

\* the column lists of the formatted row sets, with the values a cell may hold
FormatColumns ==
    {<< [col |-> COL_name, cells |-> {StrV(<<"A">>), StrV(<<"B", "B">>),
                                      StrV(<<"C", "C", "C", "C", "C">>), NullV}],
        [col |-> COL_qty, cells |-> {IntV(<<"1", "0">>), IntV(<<"5">>),
                                     IntV(<<"1", "2", "3", "4">>)}] >>,
     << [col |-> COL_id, cells |-> {IntV(<<"1">>), IntV(<<"1", "0">>),
                                    IntV(<<"1", "0", "0">>)}] >>}

\* the rows over a column list
RowsOver(columns) ==
    {[i \in 1..Len(columns) |-> <<columns[i].col, pick[i]>>] :
        pick \in {p \in [1..Len(columns) -> UNION {columns[i].cells : i \in 1..Len(columns)}] :
                     \A i \in 1..Len(columns) : p[i] \in columns[i].cells}}

\* the non-empty uniform row lists of up to MaxFormatRows rows
FormatRowLists == UNION {SeqsUpTo(RowsOver(columns), MaxFormatRows) : columns \in FormatColumns}

\* one call of _format_step_result(step_info, raw_results)
CallFormat ==
    /\ pc = "Idle"
    /\ call_args # PyNone
    /\ call_result = <<>>
    /\ call_result' = <<FormatStepResult(call_args.val.step_info, call_args.val.raw_results)>>
    /\ UNCHANGED <<loop_vars, pc, run_vars, call_args>>

InitFormat ==
    /\ NoRequest
    /\ call_args \in {Some([step_info |-> s, raw_results |-> r]) :
                         s \in {StepFind, StepOrphan}, r \in FormatRowLists}
    /\ call_result = <<>>

NextFormat == CallFormat

SpecFormat == InitFormat /\ [][NextFormat]_vars

-----------------------------------------------------------------------------
(* Properties of the plan run (specification SpecRun). *)

\* the connection of this request has been opened
ConnectionOpened == connection # "none"

\* the step the i-th entry of the log is about
StepAt(i) == Steps[exec_log[i].pos]

\* the step of a log entry failed: resolution failed, or the store raised
EntryFailed(e) == ~e.sent \/ ~e.outcome.ok

\* C1: steps run in ascending order of their `step` field, wherever they stand in
\* the execution_plan list: when a step has run, every step of the plan with a
\* smaller `step` has run before it.
C1_AscendingStepOrder ==
    ConnectionOpened =>
        \A j \in 1..Len(exec_log) : \A a \in 1..Len(Steps) :
            Steps[a].step < StepAt(j).step =>
                \E i \in 1..(j - 1) : exec_log[i].pos = a

\* C2: once the connection is open, every step of the plan is processed exactly
\* once and in list order, each leaves exactly one OutputRecord at its position,
\* no step is sent to the store twice, and the run returns only after the last
\* step, whatever failed on the way.
C2_EveryStepOnce ==
    ConnectionOpened =>
        /\ Len(output_results) = Len(exec_log)
        /\ Len(exec_log) = Len(Steps) - Len(step_iter)
        /\ \A i \in 1..Len(exec_log) :
              /\ exec_log[i].pos = i
              /\ output_results[i].description = <<Steps[i].description>>
        /\ \A a \in 1..Len(Steps) :
              Cardinality({i \in 1..Len(exec_log) :
                              exec_log[i].pos = a /\ exec_log[i].sent}) <= 1
        /\ pc = "Executed" => Len(output_results) = Len(Steps)

\* a finished run of three steps: one failed resolution, one failed in the store,
\* one succeeded
C2_Witness ==
    /\ pc = "Executed"
    /\ connection = "closed"
    /\ Len(output_results) = 3
    /\ \E i, j, k \in 1..Len(exec_log) :
          /\ ~exec_log[i].sent
          /\ exec_log[j].sent /\ ~exec_log[j].outcome.ok
          /\ exec_log[k].sent /\ exec_log[k].outcome.ok

\* C3: the record of a failed step has an error, no raw results and a non-empty
\* text; the record of a step the store answered has no error and holds exactly
\* the rows the store returned.
C3_RecordShape ==
    ConnectionOpened =>
        \A i \in 1..Len(exec_log) :
            /\ i <= Len(output_results)
            /\ IF EntryFailed(exec_log[i])
               THEN /\ "error" \in DOMAIN output_results[i]
                    /\ output_results[i].raw_results = <<>>
                    /\ output_results[i].formatted_text # <<>>
               ELSE /\ "error" \notin DOMAIN output_results[i]
                    /\ output_results[i].raw_results = exec_log[i].outcome.rows

\* a run with a record of each shape: rows, no rows, store error, resolution failure
C3_Witness ==
    /\ ConnectionOpened
    /\ \E i \in 1..Len(exec_log) :
          exec_log[i].sent /\ exec_log[i].outcome.ok /\ exec_log[i].outcome.rows # <<>>
    /\ \E i \in 1..Len(exec_log) :
          exec_log[i].sent /\ exec_log[i].outcome.ok /\ exec_log[i].outcome.rows = <<>>
    /\ \E i \in 1..Len(exec_log) : ~exec_log[i].sent \/ ~exec_log[i].outcome.ok

\* the query_ids of the plan are unique
UniqueQueryIds ==
    \A a, b \in 1..Len(Steps) : Steps[a].query_id = Steps[b].query_id => a = b

\* C4: in a plan with unique query_ids the keys of the StepResultSet are exactly
\* the query_ids of the steps the store has answered without error, each holding
\* the rows of its step.
C4_ResultKeys ==
    (ConnectionOpened /\ UniqueQueryIds) =>
        /\ DOMAIN step_results_for_deps =
              {StepAt(i).query_id : i \in {k \in 1..Len(exec_log) : ~EntryFailed(exec_log[k])}}
        /\ \A i \in 1..Len(exec_log) :
              ~EntryFailed(exec_log[i]) =>
                  step_results_for_deps[StepAt(i).query_id] = exec_log[i].outcome.rows

\* unique query_ids, a step of each outcome, exactly one key
C4_Witness ==
    /\ ConnectionOpened
    /\ UniqueQueryIds
    /\ Len(exec_log) = 3
    /\ \E i, j \in 1..Len(exec_log) :
          /\ ~exec_log[i].sent
          /\ exec_log[j].sent /\ ~exec_log[j].outcome.ok
    /\ Cardinality(DOMAIN step_results_for_deps) = 1

\* the template holds a placeholder
HasPlaceholder(sql) == \E i \in 1..Len(sql) : MatchLen(sql, i) > 0

\* the query_id q belongs to a step that has failed, and to no step that the store
\* has answered
BelongsToFailedStep(q) ==
    /\ \E i \in 1..Len(exec_log) : StepAt(i).query_id = q /\ EntryFailed(exec_log[i])
    /\ \A i \in 1..Len(exec_log) : StepAt(i).query_id = q => EntryFailed(exec_log[i])

\* the next step has a placeholder and all its dependencies failed
CascadeCase ==
    /\ pc = "Running"
    /\ step_iter # <<>>
    /\ HasPlaceholder(Head(step_iter).sql)
    /\ \A d \in 1..Len(Head(step_iter).depends_on) :
          BelongsToFailedStep(Head(step_iter).depends_on[d])

\* C5: a step with a placeholder whose dependencies all failed is recorded with
\* the dependency-resolution error, is not sent to the store, and adds nothing
\* to the StepResultSet.
C5_FailureCascades ==
    [][(CascadeCase /\ exec_log' # exec_log) =>
          /\ ~exec_log'[Len(exec_log')].sent
          /\ "error" \in DOMAIN output_results'[Len(output_results')]
          /\ output_results'[Len(output_results')].error = <<"Dependency resolution failed">>
          /\ step_results_for_deps' = step_results_for_deps]_vars

\* a dependent of a failed step has been processed: its only dependency belongs
\* to an earlier step that failed
C5_Witness ==
    /\ ConnectionOpened
    /\ \E j \in 1..Len(exec_log) :
          /\ HasPlaceholder(StepAt(j).sql)
          /\ StepAt(j).depends_on # <<>>
          /\ ~exec_log[j].sent
          /\ \A d \in 1..Len(StepAt(j).depends_on) :
                \E i \in 1..(j - 1) :
                    /\ StepAt(i).query_id = StepAt(j).depends_on[d]
                    /\ EntryFailed(exec_log[i])

RECURSIVE ReRun(_, _, _, _)
\* the run of steps from the loop state r, the store answering the i-th step with
\* outcomes[i]: the records and, per step, what the resolver returned
ReRun(steps, outcomes, r, log) ==
    IF steps = <<>> THEN [output_results |-> r.output_results, log |-> log]
    ELSE LET q == ResolveStep(Head(steps), r.step_results)
         IN  ReRun(Tail(steps), Tail(outcomes),
                   ProcessStep([step_results |-> r.step_results,
                                output_results |-> r.output_results,
                                rest |-> Tail(steps)],
                               Head(steps), Head(outcomes)),
                   Append(log, [sent |-> q.ok, sql |-> q.sql, params |-> q.params]))

\* the sequence without its k-th element
RemoveAt(seq, k) == [i \in 1..(Len(seq) - 1) |-> IF i < k THEN seq[i] ELSE seq[i + 1]]

\* the run of the plan without its k-th step, each remaining step getting the
\* answer the store gave it in the run that happened
RunWithout(k) ==
    ReRun(RemoveAt(Steps, k),
          RemoveAt([i \in 1..Len(Steps) |->
                       IF i <= Len(exec_log) THEN exec_log[i].outcome
                       ELSE [ok |-> FALSE, error |-> <<"not sent">>]], k),
          [step_results |-> EmptyDict, output_results |-> <<>>, rest |-> <<>>],
          <<>>)

\* every step after k that does not depend on k ran as in the plan without k
SameWithout(k) ==
    \A j \in (k + 1)..Len(Steps) :
        (\A d \in 1..Len(Steps[j].depends_on) :
            Steps[j].depends_on[d] # Steps[k].query_id) =>
           /\ j <= Len(exec_log)
           /\ j <= Len(output_results)
           /\ RunWithout(k).log[j - 1] =
                  [sent |-> exec_log[j].sent, sql |-> exec_log[j].sql,
                   params |-> exec_log[j].params]
           /\ RunWithout(k).output_results[j - 1] = output_results[j]

\* C6: a step that fails resolution leaves the StepResultSet unchanged and is not
\* sent to the store, and every later step that does not depend on it is
\* resolved, executed and recorded as in the same plan without that step.
C6_FailedStepFrame ==
    [][/\ (exec_log' # exec_log /\ ~exec_log'[Len(exec_log')].sent) =>
              step_results_for_deps' = step_results_for_deps
       /\ (pc = "Running" /\ pc' = "Executed") =>
              \A k \in 1..Len(Steps) :
                  (k <= Len(exec_log) /\ ~exec_log[k].sent) => SameWithout(k)]_vars

\* a finished run in which a step failed resolution after a step with rows and
\* before a step that the store answered
C6_Witness ==
    /\ pc = "Executed"
    /\ connection = "closed"
    /\ \E i, k, j \in 1..Len(exec_log) :
          /\ i < k /\ k < j
          /\ exec_log[i].sent /\ exec_log[i].outcome.ok /\ exec_log[i].outcome.rows # <<>>
          /\ ~exec_log[k].sent
          /\ exec_log[j].sent /\ exec_log[j].outcome.ok
          /\ HasPlaceholder(StepAt(j).sql)

-----------------------------------------------------------------------------
(* Properties of the generate/validate loop (specifications Spec and FairSpec). *)

\* the loop has ended with a plan
LoopSucceeded == pc \notin {"Attempting", "Exhausted"} /\ final_execution_plan # PyNone

\* the loop has ended without a plan
LoopExhausted == pc = "Exhausted" /\ final_execution_plan = PyNone

LatestJudgedValid ==
    /\ attempt_log # PyNone
    /\ ~IsMalformedAnswer(attempt_log.answer)
    /\ attempt_log.validated
    /\ attempt_log.verdict.val.parses
    /\ "is_valid" \in DOMAIN attempt_log.verdict.val.json
    /\ attempt_log.verdict.val.json.is_valid = JTrue

\* C8: the first attempt with a well-formed plan judged valid, attempt k, ends the
\* loop in Succeeded with that attempt's plan after exactly k oracle calls; when no
\* earlier answer was malformed there were exactly k-1 rejections.
C8_SucceedsAtFirstValid ==
    LatestJudgedValid =>
        /\ LoopSucceeded
        /\ final_execution_plan = Some(attempt_log.returned.plan)
        /\ [i \in 1..Len(final_execution_plan.val.execution_plan) |->
               final_execution_plan.val.execution_plan[i].query_id]
             = [i \in 1..Len(attempt_log.answer.json.execution_plan.items) |->
                   attempt_log.answer.json.execution_plan.items[i].query_id]
        /\ oracle_calls = attempt
        /\ malformed_answers = 0 =>
               (rejections = attempt - 1 /\ validator_calls = attempt)

\* invalid, invalid, valid with max_attempts = 3
C8_Witness ==
    /\ LatestJudgedValid
    /\ max_attempts = 3
    /\ oracle_calls = 3
    /\ rejections = 2
    /\ malformed_answers = 0

\* C9: an attempt whose oracle answer is malformed consumes its attempt number
\* and does not call the validator; the validator is called exactly in the
\* attempts whose answer is well-formed.
C9_MalformedSkipsValidator ==
    /\ oracle_calls = attempt
    /\ validator_calls = oracle_calls - malformed_answers
    /\ attempt_log # PyNone =>
          /\ attempt_log.validated <=> ~IsMalformedAnswer(attempt_log.answer)
          /\ IsMalformedAnswer(attempt_log.answer) =>
                /\ attempt_log.returned.is_str
                /\ final_execution_plan = PyNone
                /\ pc \in {"Attempting", "Exhausted"}

\* a step without depends_on in the second or a later attempt, after a validator call
C9_Witness ==
    /\ attempt_log # PyNone
    /\ attempt_log.answer.parses
    /\ IsMalformedAnswer(attempt_log.answer)
    /\ "execution_plan" \in DOMAIN attempt_log.answer.json
    /\ attempt_log.answer.json.execution_plan.type = "list"
    /\ attempt >= 2
    /\ validator_calls >= 1

\* the latest attempt was validated
LatestValidated == attempt_log # PyNone /\ attempt_log.validated

\* the validator's answer to the latest attempt says is_valid: false
LatestRejected ==
    /\ LatestValidated
    /\ attempt_log.verdict.val.parses
    /\ "is_valid" \in DOMAIN attempt_log.verdict.val.json
    /\ attempt_log.verdict.val.json.is_valid = JFalse

\* the validator's answer to the latest attempt is no verdict at all
LatestVerdictUnreadable ==
    /\ LatestValidated
    /\ \/ ~attempt_log.verdict.val.parses
       \/ /\ attempt_log.verdict.val.parses
          /\ "is_valid" \notin DOMAIN attempt_log.verdict.val.json

\* C10: the first oracle call gets no last error; the oracle call after a
\* rejection gets that rejection's reason as last error: the validator's reason
\* when it gave one, the default text when it gave none, and the text of the
\* reading failure when its answer was no verdict.
C10_FeedbackThreading ==
    [][oracle_calls' = oracle_calls + 1 =>
          /\ oracle_calls = 0 => attempt_log'.fed = PyNone
          /\ (LatestRejected /\ "reason" \in DOMAIN attempt_log.verdict.val.json) =>
                attempt_log'.fed = Some(attempt_log.verdict.val.json.reason)
          /\ (LatestRejected /\ "reason" \notin DOMAIN attempt_log.verdict.val.json) =>
                attempt_log'.fed = Some(<<"weizhi yuanyin">>)
          /\ LatestVerdictUnreadable =>
                /\ attempt_log'.fed # PyNone
                /\ attempt_log'.fed.val # <<>>]_vars

\* the third call was given the reason of the second attempt's rejection, which
\* differs from the reason of the first
C10_Witness ==
    /\ attempt_log # PyNone
    /\ oracle_calls = 3
    /\ rejections >= 2
    /\ attempt_log.fed = Some(<<"wrong filter">>)
    /\ last_error = Some(<<"wrong join">>)

\* C11: as long as no attempt has given a well-formed plan that the validator
\* accepted, the request is attempting or exhausted and the plan runner has not
\* been invoked: no connection was opened and no step was processed.
C11_NoRunWithoutAcceptance ==
    ~LatestJudgedValid =>
        /\ pc \in {"Attempting", "Exhausted"}
        /\ final_execution_plan = PyNone
        /\ connection = "none"
        /\ exec_log = <<>>
        /\ output_results = <<>>

\* the text s holds the text sub
Contains(s, sub) ==
    \E i \in 1..(Len(s) - Len(sub) + 1) : SubSeq(s, i, i + Len(sub) - 1) = sub

\* C12: when the loop ends in Exhausted right after a rejection, last_error is
\* the reason of that rejection and the failure shown to the caller carries it.
C12_ExhaustedCarriesReason ==
    (pc = "Exhausted" /\ LatestRejected
        /\ "reason" \in DOMAIN attempt_log.verdict.val.json) =>
        /\ last_error = Some(attempt_log.verdict.val.json.reason)
        /\ st_error # PyNone
        /\ Contains(st_error.val, attempt_log.verdict.val.json.reason)

\* the steps of the plan that the validator was shown in the latest attempt
AcceptedSteps == attempt_log.returned.plan.execution_plan

\* C13: once the loop has ended no oracle or validator call is made and the plan
\* is not replaced; the runner starts at most once (from Succeeded only, and
\* nothing leads back to Succeeded); the steps it iterates over and processes are
\* the steps, SQL text included, of the plan accepted in the succeeding attempt.
C13_TerminalFinal ==
    [][/\ pc # "Attempting" =>
             /\ oracle_calls' = oracle_calls
             /\ validator_calls' = validator_calls
             /\ attempt' = attempt
             /\ final_execution_plan' = final_execution_plan
       /\ pc \notin {"Attempting", "Succeeded"} => pc' # "Succeeded"
       /\ pc \in {"Exhausted", "Executed", "Error"} => pc' = pc
       /\ connection' # connection => (pc = "Succeeded" \/ connection = "open")
       /\ (pc = "Succeeded" /\ pc' = "Running") => step_iter' = AcceptedSteps
       /\ exec_log' # exec_log =>
             /\ Len(exec_log') = Len(exec_log) + 1
             /\ exec_log'[Len(exec_log')].pos \in 1..Len(AcceptedSteps)
             /\ Head(step_iter) = AcceptedSteps[exec_log'[Len(exec_log')].pos]]_vars

\* a finished run of the plan accepted in the second attempt, whose SQL the
\* ingestion had translated
C13_Witness ==
    /\ pc = "Executed"
    /\ connection = "closed"
    /\ attempt = 2
    /\ rejections = 1
    /\ Len(exec_log) = 1
    /\ exec_log[1].sent
    /\ AcceptedSteps[1].query_id = "today"
    /\ AcceptedSteps[1].sql # attempt_log.answer.json.execution_plan.items[1].sql

-----------------------------------------------------------------------------
(* Properties of the placeholder resolver (specification SpecResolve). *)

\* the arguments of the scalar resolution example
ScalarExample ==
    /\ call_args.val.sql_template =
           <<"SELECT * FROM employees WHERE department_id = ">> \o PH_department_id
    /\ call_args.val.step_results = [q \in {"find_top_dept"} |-> ROWS_dept]
    /\ call_args.val.depends_on = <<"find_top_dept">>

\* C14: with find_top_dept -> [{department_id: 7}] and depends_on = [find_top_dept]
\* the template `... department_id = {{department_id}}` resolves to the SQL
\* `... department_id = :department_id` with department_id bound to the single
\* value 7.
C14_ScalarExample ==
    (ScalarExample /\ call_result # <<>>) =>
        /\ call_result[1].ok
        /\ call_result[1].sql =
               <<"SELECT * FROM employees WHERE department_id = ", ":">>
                   \o COL_department_id
        /\ DOMAIN call_result[1].params = {COL_department_id}
        /\ call_result[1].params[COL_department_id] =
               [list |-> FALSE, vals |-> {IntV(<<"7">>)}]

\* the identifier is list-typed: it ends in _ids, _id or s
ListTyped(name) ==
    \/ name[Len(name)] = "s"
    \/ Len(name) >= 3 /\ SubSeq(name, Len(name) - 2, Len(name)) = <<"_", "i", "d">>

\* the singularized identifier: _ids -> _id, else a trailing s stripped
Singular(name) ==
    IF name[Len(name)] = "s" THEN SubSeq(name, 1, Len(name) - 1) ELSE name

\* the columns of a row
Columns(row) == {row[i][1] : i \in 1..Len(row)}

\* the values of the column col in a row
ValuesOf(row, col) == {row[i][2] : i \in {j \in 1..Len(row) : row[j][1] = col}}

\* what the row contributes to the identifier, by the rule of the claim
RowValues(name, row) ==
    IF Len(row) = 1 THEN {row[1][2]}
    ELSE IF name \in Columns(row) THEN ValuesOf(row, name)
    ELSE IF Singular(name) \in Columns(row) THEN ValuesOf(row, Singular(name))
    ELSE {}

\* the values of the rows of one dependency
DepValues(name, rows) == UNION {RowValues(name, rows[i]) : i \in 1..Len(rows)}

\* the values of every row of every listed dependency that is stored
CollectedValues(name, step_results, depends_on) ==
    UNION {DepValues(name, step_results[depends_on[d]]) :
              d \in {x \in 1..Len(depends_on) : depends_on[x] \in DOMAIN step_results}}

\* the arguments of the list resolution example
ListExample ==
    /\ call_args.val.sql_template =
           <<"SELECT * FROM products WHERE id IN ">> \o PH_product_ids
    /\ call_args.val.step_results = [q \in {"find_ids"} |-> ROWS_ids]
    /\ call_args.val.depends_on = <<"find_ids">>

\* C15: every list-typed placeholder that a call has bound is bound to the
\* collection, without duplicates, of the values that the rows of all listed and
\* stored dependencies contribute: the lone value of a one-column row, else the
\* column named as the identifier, else the singularized column, else nothing;
\* rows [{id:1},{id:2},{id:1}] bind product_ids to exactly {1, 2}.
C15_ListResolution ==
    call_result # <<>> =>
        /\ call_result[1].ok =>
              \A name \in DOMAIN call_result[1].params :
                  ListTyped(name) =>
                      /\ call_result[1].params[name].list
                      /\ call_result[1].params[name].vals =
                             CollectedValues(name, call_args.val.step_results,
                                             call_args.val.depends_on)
        /\ ListExample =>
              /\ call_result[1].ok
              /\ call_result[1].params[COL_product_id \o <<"s">>].vals =
                     {IntV(<<"1">>), IntV(<<"2">>)}

\* a list bound from two stored dependencies, one contributing by its
\* singularized column and one by its lone column
C15_Witness ==
    /\ call_result # <<>>
    /\ call_result[1].ok
    /\ call_args.val.depends_on = <<"find_top_dept", "find_ids">>
    /\ call_args.val.step_results =
           [q \in {"find_top_dept", "find_ids"} |->
               IF q = "find_ids" THEN ROWS_ids ELSE ROWS_product]
    /\ COL_product_id \o <<"s">> \in DOMAIN call_result[1].params
    /\ Cardinality(call_result[1].params[COL_product_id \o <<"s">>].vals) = 2

\* the identifiers of the templates of the direct calls
KnownNames ==
    {COL_department_id, COL_product_id \o <<"s">>, COL_name \o <<"s">>, COL_name,
     <<"i", "d", "s">>, <<"t", "o", "t", "a", "l">>}

\* the identifiers the template holds a placeholder of
TemplateNames(sql_template) ==
    {n \in KnownNames : Contains(sql_template, Placeholder(n))}

RECURSIVE ListedRows(_, _)
\* the rows of the listed dependencies that are stored, in depends_on order
ListedRows(step_results, depends_on) ==
    IF depends_on = <<>> THEN <<>>
    ELSE IF Head(depends_on) \in DOMAIN step_results
         THEN step_results[Head(depends_on)] \o ListedRows(step_results, Tail(depends_on))
         ELSE ListedRows(step_results, Tail(depends_on))

\* the row offers a value for the scalar identifier: its column, or its lone column
Offers(row, name) == name \in Columns(row) \/ Len(row) = 1

\* the scalar identifier is found in a listed dependency
ScalarFound(name, rows) == \E i \in 1..Len(rows) : Offers(rows[i], name)

\* the value the first offering row gives the scalar identifier
ScalarFirstValue(name, rows) ==
    LET i == CHOOSE k \in 1..Len(rows) :
                 Offers(rows[k], name) /\ \A j \in 1..(k - 1) : ~Offers(rows[j], name)
    IN  IF name \in Columns(rows[i])
        THEN CHOOSE v \in ValuesOf(rows[i], name) : TRUE
        ELSE rows[i][1][2]

\* the claim's two cases: found in no listed dependency, or a list of zero values
Unresolvable(name, step_results, depends_on) ==
    IF ListTyped(name) THEN CollectedValues(name, step_results, depends_on) = {}
    ELSE ~ScalarFound(name, ListedRows(step_results, depends_on))

\* a scalar identifier whose first offered value is NULL
ScalarIsNull(name, step_results, depends_on) ==
    /\ ~ListTyped(name)
    /\ ScalarFound(name, ListedRows(step_results, depends_on))
    /\ ScalarFirstValue(name, ListedRows(step_results, depends_on)) = NullV

\* the call failed as a whole: no SQL and no parameter
FailedWhole(result) == ~result.ok /\ result.sql = <<>> /\ result.params = EmptyDict

\* the call returned SQL and a parameter for every identifier of the template
ResolvedWhole(result, sql_template) ==
    /\ result.ok
    /\ result.sql # <<>>
    /\ DOMAIN result.params = TemplateNames(sql_template)

\* C16: the call fails as a whole, with neither SQL nor a partial mapping, when
\* some placeholder is found in no listed dependency or is a list collecting zero
\* values, even when other placeholders are resolvable, and otherwise returns SQL
\* and a complete mapping.
C16_AllOrNothing ==
    call_result # <<>> =>
        LET a == call_args.val
        IN  IF \E n \in TemplateNames(a.sql_template) :
                   Unresolvable(n, a.step_results, a.depends_on)
            THEN FailedWhole(call_result[1])
            ELSE ResolvedWhole(call_result[1], a.sql_template)

\* the same with the scalar whose found value is NULL counted as unresolvable:
\* the only case in which the call fails although every placeholder is found
AllOrNothingButForNull ==
    call_result # <<>> =>
        LET a == call_args.val
        IN  IF \E n \in TemplateNames(a.sql_template) :
                   \/ Unresolvable(n, a.step_results, a.depends_on)
                   \/ ScalarIsNull(n, a.step_results, a.depends_on)
            THEN FailedWhole(call_result[1])
            ELSE ResolvedWhole(call_result[1], a.sql_template)

\* the identifier whose placeholder starts at position i of the template, if any
NamesAt(sql_template, i) ==
    {n \in KnownNames :
        /\ i + Len(n) + 3 <= Len(sql_template)
        /\ SubSeq(sql_template, i, i + Len(n) + 3) = Placeholder(n)}

RECURSIVE WithMarkers(_, _)
\* the template from position i on with every {{x}} replaced by :x
WithMarkers(sql_template, i) ==
    IF i > Len(sql_template) THEN <<>>
    ELSE IF NamesAt(sql_template, i) # {}
         THEN LET n == CHOOSE x \in NamesAt(sql_template, i) : TRUE
              IN  <<":">> \o n \o WithMarkers(sql_template, i + Len(n) + 4)
         ELSE <<sql_template[i]>> \o WithMarkers(sql_template, i + 1)

\* C17: the SQL of a successful call is the template with every {{x}} replaced by
\* :x and nothing else changed; it is the SQL every other step_results and
\* depends_on that resolve the template give; the mapping has exactly one entry
\* per distinct identifier of the template.
C17_MarkersOnly ==
    (Len(call_result) = 1 /\ call_result[1].ok) =>
        LET a == call_args.val
        IN  /\ call_result[1].sql = WithMarkers(a.sql_template, 1)
            /\ DOMAIN call_result[1].params = TemplateNames(a.sql_template)
            /\ \A r \in ResolveStepResults : \A d \in ResolveDependsOn :
                  LET other == ResolveQueryParameters(a.sql_template, r, d)
                  IN  other.ok => other.sql = call_result[1].sql

\* a successful call on the template that uses one scalar twice and one list
C17_Witness ==
    /\ Len(call_result) = 1
    /\ call_result[1].ok
    /\ call_args.val.sql_template = StepByName.sql
    /\ Cardinality(DOMAIN call_result[1].params) = 2
    /\ call_result[1].params[COL_name] = [list |-> FALSE, vals |-> {StrV(<<"A">>)}]

-----------------------------------------------------------------------------
(* Properties of the connection (specification SpecRun). *)

\* C19: the connection a run opened is open only while the run is going on: it
\* is closed when the run has returned, with or without failed steps, and when an
\* exception has left the step loop.
C19_ConnectionReleased ==
    /\ connection = "open" => pc = "Running"
    /\ pc \in {"Executed", "Error"} => connection \in {"none", "closed"}
    /\ (pc \in {"Executed", "Error"} /\ exec_log # <<>>) => connection = "closed"

\* an exception left the loop after a step had been answered by the store
C19_Witness ==
    /\ pc = "Error"
    /\ connection = "closed"
    /\ Len(exec_log) >= 1
    /\ Len(exec_log) < Len(Steps)
    /\ exec_log[1].sent
    /\ exec_log[1].outcome.ok

-----------------------------------------------------------------------------
(* Properties of the formatter (specification SpecFormat). *)

RECURSIVE SplitLines(_)
\* the lines of a text
SplitLines(text) ==
    IF \E i \in 1..Len(text) : text[i] = "\n"
    THEN LET i == CHOOSE k \in 1..Len(text) :
                      text[k] = "\n" /\ \A j \in 1..(k - 1) : text[j] # "\n"
         IN  <<SubSeq(text, 1, i - 1)>> \o SplitLines(SubSeq(text, i + 1, Len(text)))
    ELSE <<text>>

\* max(len(column name), max over the rows of len(str(cell)))
Width(rows, k) ==
    LET lens == {Len(rows[1][k][1])} \cup {Len(rows[i][k][2].s) : i \in 1..Len(rows)}
    IN  CHOOSE w \in lens : \A x \in lens : x <= w

\* the text followed by spaces up to width w
Padded(text, w) == text \o [i \in 1..(w - Len(text)) |-> " "]

RECURSIVE Line(_, _, _)
\* the padded texts of the columns k.. joined by " | "
Line(texts, widths, k) ==
    IF k > Len(texts) THEN <<>>
    ELSE Padded(texts[k], widths[k])
             \o (IF k < Len(texts) THEN <<" ", "|", " ">> ELSE <<>>)
             \o Line(texts, widths, k + 1)

\* the rows of the formatter example
FormatExample ==
    << << <<COL_name, StrV(<<"A">>)>>, <<COL_qty, IntV(<<"1", "0">>)>> >>,
       << <<COL_name, StrV(<<"B", "B">>)>>, <<COL_qty, IntV(<<"5">>)>> >> >>

\* C20: for a non-empty uniform row set the formatter emits, after its title
\* line, a header line, a separator line as long as the header, and one line per
\* row in row order, every column left-justified and padded to the width
\* max(len(column name), max len(str(cell))), so that header and data lines have
\* one length; the example has the widths 4 and 3.
C20_AlignedTable ==
    call_result # <<>> =>
        LET rows == call_args.val.raw_results
            lines == SplitLines(call_result[1])
            widths == [k \in 1..Len(rows[1]) |-> Width(rows, k)]
            header == Line([k \in 1..Len(rows[1]) |-> rows[1][k][1]], widths, 1)
        IN  /\ Len(lines) = Len(rows) + 3
            /\ lines[2] = header
            /\ lines[3] = [i \in 1..Len(header) |-> "-"]
            /\ \A i \in 1..Len(rows) :
                  /\ lines[3 + i] = Line([k \in 1..Len(rows[1]) |-> rows[i][k][2].s],
                                         widths, 1)
                  /\ Len(lines[3 + i]) = Len(lines[2])
            /\ rows = FormatExample =>
                  /\ widths = <<4, 3>>
                  /\ lines[2] = <<"n", "a", "m", "e", " ", "|", " ", "q", "t", "y">>
                  /\ lines[4] = <<"A", " ", " ", " ", " ", "|", " ", "1", "0", " ">>
                  /\ lines[5] = <<"B", "B", " ", " ", " ", "|", " ", "5", " ", " ">>

\* two rows whose cells are wider than both column names
C20_Witness ==
    /\ call_result # <<>>
    /\ Len(call_args.val.raw_results) = 2
    /\ call_args.val.raw_results[2][1][2] = StrV(<<"C", "C", "C", "C", "C">>)
    /\ call_args.val.raw_results[1][2][2] = IntV(<<"1", "2", "3", "4">>)
    /\ Len(SplitLines(call_result[1])[2]) = 12

\* the listed dependencies, by position in depends_on, that are stored and hold a
\* row with a column named exactly as the identifier
ExactDeps(name, step_results, depends_on) ==
    {i \in 1..Len(depends_on) :
        /\ depends_on[i] \in DOMAIN step_results
        /\ \E k \in 1..Len(step_results[depends_on[i]]) :
               name \in Columns(step_results[depends_on[i]][k])}

\* the value of the column in the first row that has it, in the first such dependency
FirstExactValue(name, step_results, depends_on) ==
    LET i == CHOOSE d \in ExactDeps(name, step_results, depends_on) :
                 \A e \in ExactDeps(name, step_results, depends_on) : d <= e
        rows == step_results[depends_on[i]]
        k == CHOOSE r \in 1..Len(rows) :
                 /\ name \in Columns(rows[r])
                 /\ \A q \in 1..(r - 1) : name \notin Columns(rows[q])
    IN  ValuesOf(rows[k], name)

\* the lone values of the single-column rows of the listed dependencies
LoneValues(step_results, depends_on) ==
    LET rows == ListedRows(step_results, depends_on)
    IN  {rows[k][1][2] : k \in {j \in 1..Len(rows) : Len(rows[j]) = 1}}

\* C21: a bound scalar placeholder holds the value of the first dependency, in
\* depends_on order, whose rows have a column named exactly as the identifier; a
\* lone value of a single-column row is bound only when no listed dependency has
\* such a column.
C21_ScalarPrecedence ==
    call_result # <<>> =>
        LET a == call_args.val
            r == call_result[1]
        IN  \A n \in TemplateNames(a.sql_template) :
                (r.ok /\ ~ListTyped(n) /\ n \in DOMAIN r.params) =>
                    /\ ~r.params[n].list
                    /\ IF ExactDeps(n, a.step_results, a.depends_on) # {}
                       THEN r.params[n].vals =
                                FirstExactValue(n, a.step_results, a.depends_on)
                       ELSE r.params[n].vals \subseteq
                                LoneValues(a.step_results, a.depends_on)

-----------------------------------------------------------------------------
(* Properties of the step result set during one plan run (specification SpecRun). *)

\* the plan being run is one the ingestion check accepts for the oracle's answer
IngestionAccepted ==
    /\ final_execution_plan # PyNone
    /\ attempt_log # PyNone
    /\ ~GenerateSqlWithDependencies(attempt_log.answer, DB_TYPE).is_str
    /\ ExecutionSteps(GenerateSqlWithDependencies(attempt_log.answer, DB_TYPE).plan)
           = Steps

\* C22: during the run of a plan the ingestion check accepts, a query_id stored
\* in the step result set stays stored and the rows under it never change.
C22_ResultSetOnlyGrows ==
    [][(IngestionAccepted /\ pc = "Running") =>
          \A q \in DOMAIN step_results_for_deps :
              /\ q \in DOMAIN step_results_for_deps'
              /\ step_results_for_deps'[q] = step_results_for_deps[q]]_vars

\* the part that holds: a stored query_id is never removed during the run
StoredKeysStay ==
    [][pc = "Running" =>
          DOMAIN step_results_for_deps \subseteq DOMAIN step_results_for_deps']_vars

-----------------------------------------------------------------------------
(* Properties of the loop when a model call fails (specification Spec). *)

\* what a caller of call_llm_api holds after a call that failed or timed out
FailedCall == CallLlmApi([ok |-> FALSE, exception |-> "Timeout"])

\* the state the loop must be in after a failed attempt numbered n
NextAttemptOrExhausted(n) == IF n < max_attempts THEN "Attempting" ELSE "Exhausted"

\* the step is an attempt whose oracle call failed
OracleCallFails == attempt' = attempt + 1 /\ attempt_log'.answer = FailedCall

\* the step is an attempt whose validator call failed or returned unparseable text
ValidatorCallFails ==
    /\ attempt' = attempt + 1
    /\ attempt_log'.validated
    /\ \/ attempt_log'.verdict = Some(FailedCall)
       \/ ~attempt_log'.verdict.val.parses

\* C23: an attempt whose oracle call failed or timed out is handled as a
\* malformed plan (the attempt is consumed, the validator is not called), an
\* attempt whose validator call failed or whose validator response does not
\* parse is a rejection with a reason, and in both cases the loop goes on to the
\* next attempt or to Exhausted, never to Succeeded and never to an error.
C23_CallFailureIsFailedAttempt ==
    [][/\ OracleCallFails =>
              /\ ~attempt_log'.validated
              /\ validator_calls' = validator_calls
              /\ malformed_answers' = malformed_answers + 1
              /\ attempt_log'.returned.is_str
              /\ final_execution_plan' = PyNone
              /\ pc' = NextAttemptOrExhausted(attempt')
       /\ ValidatorCallFails =>
              /\ rejections' = rejections + 1
              /\ last_error' # PyNone
              /\ last_error'.val # <<>>
              /\ final_execution_plan' = PyNone
              /\ pc' = NextAttemptOrExhausted(attempt')]_vars

\* the validator call of the second attempt failed after a first attempt without
\* a plan, and a third attempt is due
C23_Witness ==
    /\ attempt = 2
    /\ malformed_answers = 1
    /\ oracle_calls = 2
    /\ validator_calls = 1
    /\ attempt_log.validated
    /\ attempt_log.verdict = Some(FailedCall)
    /\ attempt_log.fed = PyNone
    /\ last_error # PyNone
    /\ pc = "Attempting"

-----------------------------------------------------------------------------
(* Direct calls of _translate_sql_for_dialect on chosen arguments. *)

MaxSqlParts == 2

\* the pieces the SQL texts of the direct calls are made of: plain text, and keys
\* of the translation table in upper, lower and mixed case
SqlParts ==
    {<<"SELECT ">>, <<", ">>,
     KEY_curdate, <<"c", "u", "r", "d", "a", "t", "e", "(", ")">>,
     <<"N", "o", "w", "(", ")">>,
     KEY_year,
     <<"y", "e", "a", "r", "(", "C", "u", "r", "D", "a", "t", "e", "(", ")", ")">>}

RECURSIVE Flatten(_)
\* the pieces written one after the other
Flatten(parts) == IF parts = <<>> THEN <<>> ELSE Head(parts) \o Flatten(Tail(parts))

\* the database types of the direct calls
DbTypes == {"sqlite", "SQLite", "mysql"}

\* db_type.lower() on the database types of the calls
LowerDbType(db_type) == IF db_type = "SQLite" THEN "sqlite" ELSE db_type

\* one call of _translate_sql_for_dialect(sql_query, db_type)
CallTranslate ==
    /\ pc = "Idle"
    /\ call_args # PyNone
    /\ call_result = <<>>
    /\ call_result' = <<TranslateSqlForDialect(call_args.val.sql_query,
                                               LowerDbType(call_args.val.db_type))>>
    /\ UNCHANGED <<loop_vars, pc, run_vars, call_args>>

InitTranslate ==
    /\ NoRequest
    /\ call_args \in {Some([sql_query |-> Flatten(parts), db_type |-> t]) :
                         parts \in SeqsUpTo(SqlParts, MaxSqlParts), t \in DbTypes}
    /\ call_result = <<>>

NextTranslate == CallTranslate

SpecTranslate == InitTranslate /\ [][NextTranslate]_vars

-----------------------------------------------------------------------------
(* Properties of the dialect translator (specification SpecTranslate). *)

\* the text with every letter in lower case
FoldAll(s) == [k \in 1..Len(s) |-> Fold(s[k])]

\* the dialect-correct equivalent of a piece: of a key in any case, else the piece
Equivalent(part) ==
    IF FoldAll(part) = FoldAll(KEY_year) THEN <<"strftime('%Y', 'now')">>
    ELSE IF FoldAll(part) = FoldAll(KEY_curdate) THEN <<"date('now')">>
    ELSE IF FoldAll(part) = FoldAll(KEY_now) THEN <<"datetime('now', 'localtime')">>
    ELSE part

\* the text with every key rewritten into its equivalent
Rewritten(parts) == Flatten([k \in 1..Len(parts) |-> Equivalent(parts[k])])

\* some key of the table occurs in the text, in any case
KeyRemains(s) ==
    \E key \in {KEY_curdate, KEY_now, KEY_year, KEY_date_format} :
        \E i \in 1..Len(s) :
            /\ i + Len(key) - 1 <= Len(s)
            /\ FoldAll(SubSeq(s, i, i + Len(key) - 1)) = FoldAll(key)

\* C24: for sqlite every occurrence, in any case, of CURDATE(), NOW() and
\* YEAR(CURDATE()) is rewritten into date('now'), datetime('now', 'localtime')
\* and strftime('%Y', 'now') and no key of the table remains in the output; for
\* another dialect the SQL is returned unchanged.
C24_TranslatesEveryKey ==
    call_result # <<>> =>
        IF call_args.val.db_type \in {"sqlite", "SQLite"}
        THEN /\ ~KeyRemains(call_result[1])
             /\ \A parts \in SeqsUpTo(SqlParts, MaxSqlParts) :
                    call_args.val.sql_query = Flatten(parts) =>
                        call_result[1] = Rewritten(parts)
        ELSE call_result[1] = call_args.val.sql_query

\* the same for the texts in which YEAR(CURDATE()) does not occur
TranslatesCurdateAndNow ==
    (call_result # <<>> /\ \A i \in 1..Len(call_args.val.sql_query) :
                               ~MatchesAt(call_args.val.sql_query, i, KEY_year)) =>
        IF call_args.val.db_type \in {"sqlite", "SQLite"}
        THEN /\ ~KeyRemains(call_result[1])
             /\ \A parts \in SeqsUpTo(SqlParts, MaxSqlParts) :
                    call_args.val.sql_query = Flatten(parts) =>
                        call_result[1] = Rewritten(parts)
        ELSE call_result[1] = call_args.val.sql_query

\* no key of the table is left in the output for sqlite
NoKeyLeft ==
    (call_result # <<>> /\ call_args.val.db_type \in {"sqlite", "SQLite"}) =>
        ~KeyRemains(call_result[1])

-----------------------------------------------------------------------------
(* Properties of the feedback after a malformed plan (specification Spec). *)

\* the latest attempt ended without a plan: the ingestion returned its error text
LatestMalformed == attempt_log # PyNone /\ attempt_log.returned.is_str

\* C25: the oracle call that follows an attempt whose plan was malformed is
\* given the structural error message of that attempt as last error, neither
\* None nor the reason of an earlier attempt.
C25_MalformedFeedback ==
    [][(LatestMalformed /\ oracle_calls' = oracle_calls + 1) =>
          attempt_log'.fed = Some(attempt_log.returned.text)]_vars

\* what the call after a malformed attempt is given: what the malformed attempt
\* itself was given
MalformedFeedbackIsStale ==
    [][(LatestMalformed /\ oracle_calls' = oracle_calls + 1) =>
          attempt_log'.fed = attempt_log.fed]_vars

-----------------------------------------------------------------------------
(* Direct calls of _format_step_result on rows with differing columns. *)

\* the column lists of the rows of a non-uniform row list
MixedColumns ==
    FormatColumns \cup
        {<< [col |-> COL_name, cells |-> {StrV(<<"A">>), StrV(<<"B", "B">>)}] >>}

\* the set of column names of a row
RowKeys(row) == {row[i][1] : i \in 1..Len(row)}

\* the row lists of up to MaxFormatRows rows in which some row does not have the
\* set of columns of the first row
MixedRowLists ==
    {rows \in SeqsUpTo(UNION {RowsOver(columns) : columns \in MixedColumns}, MaxFormatRows) :
        \E i \in 1..Len(rows) : RowKeys(rows[i]) # RowKeys(rows[1])}

InitFormatMixed ==
    /\ NoRequest
    /\ call_args \in {Some([step_info |-> s, raw_results |-> r]) :
                         s \in {StepFind, StepOrphan}, r \in MixedRowLists}
    /\ call_result = <<>>

SpecFormatMixed == InitFormatMixed /\ [][NextFormat]_vars

-----------------------------------------------------------------------------
(* Properties of the formatter on non-uniform rows (specification SpecFormatMixed). *)

RECURSIVE Piped(_, _)
\* the texts k.. joined by " | " as they are
Piped(texts, k) ==
    IF k > Len(texts) THEN <<>>
    ELSE texts[k] \o (IF k < Len(texts) THEN <<" ", "|", " ">> ELSE <<>>)
             \o Piped(texts, k + 1)

AlignedAlsoWhenMixed ==
    call_result # <<>> =>
        LET rows == call_args.val.raw_results
            lines == SplitLines(call_result[1])
        IN  /\ Len(lines) = Len(rows) + 3
            /\ lines[3] = [i \in 1..Len(lines[2]) |-> "-"]
            /\ \A i \in 1..Len(rows) : Len(lines[3 + i]) = Len(lines[2])

-----------------------------------------------------------------------------
(* Properties of the acceptance test of the loop (specification Spec). *)

\* the validator's answer of the attempt this step makes has is_valid: true
VerdictIsTrue ==
    /\ attempt_log'.validated
    /\ attempt_log'.verdict.val.parses
    /\ "is_valid" \in DOMAIN attempt_log'.verdict.val.json
    /\ attempt_log'.verdict.val.json.is_valid = JTrue

\* C27: the loop enters Succeeded only in an attempt whose validator answer has
\* is_valid equal to the boolean true; an attempt with any other validator
\* answer (false, is_valid missing, unparseable, a non-boolean is_valid such as
\* the string "false") is a rejection and does not enter Succeeded.
C27_OnlyTrueSucceeds ==
    [][attempt' = attempt + 1 =>
          /\ pc' = "Succeeded" => VerdictIsTrue
          /\ (attempt_log'.validated /\ ~VerdictIsTrue) =>
                (rejections' = rejections + 1 /\ pc' \in {"Attempting", "Exhausted"})]_vars

\* the same with every truthy is_valid counted as true
OnlyTruthySucceeds ==
    [][attempt' = attempt + 1 =>
          LET truthy == /\ attempt_log'.validated
                        /\ attempt_log'.verdict.val.parses
                        /\ "is_valid" \in DOMAIN attempt_log'.verdict.val.json
                        /\ attempt_log'.verdict.val.json.is_valid
                               \in {JTrue, JString(<<"f", "a", "l", "s", "e">>)}
          IN  /\ pc' = "Succeeded" => truthy
              /\ (attempt_log'.validated /\ ~truthy) =>
                    (rejections' = rejections + 1
                     /\ pc' \in {"Attempting", "Exhausted"})]_vars

-----------------------------------------------------------------------------
(* Properties of a step without rows (specification SpecRun). *)

\* every listed dependency of the step is stored with an empty row list
DependenciesAllEmpty(step_info) ==
    /\ StepDependsOn(step_info) # <<>>
    /\ \A k \in 1..Len(StepDependsOn(step_info)) :
          /\ StepDependsOn(step_info)[k] \in DOMAIN step_results_for_deps
          /\ step_results_for_deps[StepDependsOn(step_info)[k]] = <<>>

\* C28: a step the store answered with zero rows is stored under its query_id
\* with an empty row list and recorded without an error; a step with a
\* placeholder whose listed dependencies all hold zero rows is not sent to the
\* store and is recorded with the dependency-resolution error.
C28_EmptyResultSuppliesNothing ==
    [][Len(exec_log') = Len(exec_log) + 1 =>
          LET i == Len(exec_log')
              e == exec_log'[i]
              rec == output_results'[i]
          IN  /\ Len(output_results') = i
              /\ (e.sent /\ e.outcome.ok /\ e.outcome.rows = <<>>) =>
                    /\ Steps[i].query_id \in DOMAIN step_results_for_deps'
                    /\ step_results_for_deps'[Steps[i].query_id] = <<>>
                    /\ "error" \notin DOMAIN rec
                    /\ rec.raw_results = <<>>
              /\ (HasPlaceholder(Steps[i].sql) /\ DependenciesAllEmpty(Steps[i])) =>
                    /\ ~e.sent
                    /\ "error" \in DOMAIN rec
                    /\ rec.error = <<"Dependency resolution failed">>
                    /\ rec.raw_results = <<>>
                    /\ step_results_for_deps' = step_results_for_deps]_vars

\* the first step returned zero rows and the step that depends on it was not sent
C28_Witness ==
    /\ Steps = <<StepFind, StepByIds>>
    /\ Len(exec_log) = 2
    /\ exec_log[1].sent
    /\ exec_log[1].outcome = [ok |-> TRUE, rows |-> <<>>]
    /\ ~exec_log[2].sent
    /\ step_results_for_deps = [q \in {"find_ids"} |-> <<>>]
    /\ "error" \notin DOMAIN output_results[1]
    /\ output_results[2].error = <<"Dependency resolution failed">>

-----------------------------------------------------------------------------
(* Properties of NULL values in the resolver (specification SpecResolve). *)

\* C29: a scalar placeholder whose matching dependency value is NULL makes the
\* whole call fail as an unresolved placeholder does, NULL is not bound, and in
\* no parameter mapping the resolver returns is an identifier mapped to NULL.
C29_NullNeverBound ==
    call_result # <<>> =>
        LET a == call_args.val
            r == call_result[1]
        IN  /\ (\E n \in TemplateNames(a.sql_template) :
                    ScalarIsNull(n, a.step_results, a.depends_on)) => FailedWhole(r)
            /\ \A n \in DOMAIN r.params :
                  ~r.params[n].list => NullV \notin r.params[n].vals

\* every placeholder of the template is found, the scalar one with the value
\* NULL, and the call has failed
C29_Witness ==
    /\ call_result # <<>>
    /\ call_args.val.sql_template = StepByName.sql
    /\ call_args.val.depends_on = <<"find_ids">>
    /\ call_args.val.step_results = [q \in {"find_ids"} |-> ROWS_null]
    /\ ScalarIsNull(COL_name, call_args.val.step_results, call_args.val.depends_on)
    /\ \A n \in TemplateNames(call_args.val.sql_template) :
           ~Unresolvable(n, call_args.val.step_results, call_args.val.depends_on)
    /\ FailedWhole(call_result[1])

\* a list-typed identifier may be bound to a collection that holds NULL
ListHoldsNull ==
    /\ call_result # <<>>
    /\ \E n \in DOMAIN call_result[1].params :
           call_result[1].params[n].list /\ NullV \in call_result[1].params[n].vals

-----------------------------------------------------------------------------
(* Properties of a failed connection setup (specification SpecRun). *)

\* the runner has returned without having opened a connection
ReturnedWithoutConnection == pc = "Executed" /\ connection = "none"

====
